---- MODULE Spec2Model ----
(***************************************************************************)
(* Model of thermite (src/src/main.rs): run_io's write loop over a set of  *)
(* targets, the address sequencing of the four I/O modes, xor_scramble,    *)
(* the full-period generator (mod lcg) and the liveness watchdog           *)
(* (mod watchdog).                                                         *)
(*                                                                         *)
(* u64 values are kept as integers.  The only arithmetic of run_io that    *)
(* can leave the u64 range within the bounds below is the subtraction of   *)
(* line 288; a wrapped result 2^64 + d (d < 0) is kept as the negative     *)
(* integer d, and U64Le / U64Gt compare such values as u64 does.           *)
(*                                                                         *)
(* Time is discrete.  last_io_age is now - *last_io, the age of the stored *)
(* Instant; wd_sleep is what remains of the watchdog's current sleep.      *)
(* The critical sections on last_io take no time.                          *)
(***************************************************************************)
EXTENDS Integers, Sequences, FiniteSets, TLC

\* ------------------------------------------------------------- bounds ----
MaxLogBlock == 1      \* blocksize ranges over 2^0 .. 2^MaxLogBlock
MaxStart    == 1      \* -s ranges over 0 .. MaxStart (0: option absent)
MaxEnd      == 2      \* -e ranges over 0 .. MaxEnd   (0: option absent)
MaxSkip     == 1      \* -i ranges over 0 .. MaxSkip  (0: option absent)
MaxTargets  == 2      \* number of -f options
MaxIter     == 8      \* the loop head is not entered with iterations > MaxIter
MaxRandomIter == 1    \* the same for Random mode, which never breaks
MaxRange    == 8      \* range lengths the generator is run on alone
MaxMul      == 13     \* multipliers tried there
MaxInc      == 7      \* increments tried there
MaxScrLogBlock == 2   \* buffer lengths xor_scramble is run on alone: 2^0 .. 2^this
MaxScrIter  == 5      \* iteration counters tried there

\* ---------------------------------------------------------- constants ----
PollInterval == 2     \* watchdog::watch(shared, 2u64, 3u64)
TimeoutZero  == PollInterval - PollInterval
Timeout      == 3

IOModes   == {"Sequential", "SequentialReverse", "Random", "Random100"}
DataTypes == {"Random", "Zero"}

\* Bytes random_bytes may produce (a sample of 0..255 closed under XOR).
ByteSamples == {0, 165}
\* The same for the runs of xor_scramble alone.
ScrBytes == {0, 1, 165}
\* Target lengths in bytes.
FileLens == {1, 2}
\* Multipliers and increments of the generator satisfying the full-period
\* conditions (a mod 4 = 1, c odd).
LcgParams == {<<5, 1>>, <<13, 3>>}

Pow2(k) == 2 ^ k
BlockSizes == {Pow2(k) : k \in 0..MaxLogBlock}

RECURSIVE IsPowerOfTwo(_)
IsPowerOfTwo(n) ==
    IF n <= 0 THEN FALSE
    ELSE IF n = 1 THEN TRUE
    ELSE IF n % 2 = 1 THEN FALSE
    ELSE IsPowerOfTwo(n \div 2)

RECURSIVE NextPow2From(_, _)
NextPow2From(p, n) == IF p >= n THEN p ELSE NextPow2From(2 * p, n)
next_power_of_two(n) == NextPow2From(1, n)

\* ------------------------------------------------------ u64 helpers ------
\* a <= b on u64 values, a negative integer d standing for 2^64 + d.
U64Le(a, b) ==
    IF a < 0 /\ b >= 0 THEN FALSE
    ELSE IF a >= 0 /\ b < 0 THEN TRUE
    ELSE a <= b
U64Gt(a, b) == ~U64Le(a, b)

\* ------------------------------------------------------ xor on bytes -----
RECURSIVE XorBits(_, _, _)
XorBits(a, b, n) ==
    IF n = 0 THEN 0
    ELSE (((a % 2) + (b % 2)) % 2) + 2 * XorBits(a \div 2, b \div 2, n - 1)
Xor8(a, b) == XorBits(a, b, 8)

\* a & (m - 1) for m a power of two
Mask(a, m) == a % m

\* ------------------------------------------------------ xor_scramble -----
\* One page step: data[this + p_off] ^= data[next + p_off]  (0-based index
\* i of the Vec is position i + 1 of the sequence).
ScramblePageXorIndex(d, psize, offset, p_off) ==
    LET this == Mask(offset, psize)
        next == Mask(offset + 1, psize)
        this_offset == this + p_off
        next_offset == next + p_off
    IN  [d EXCEPT ![this_offset + 1] = Xor8(d[this_offset + 1], next_offset)]

ScramblePage(d, psize, offset, p_off) ==
    LET this == Mask(offset, psize)
        next == Mask(offset + 1, psize)
        this_offset == this + p_off
        next_offset == next + p_off
    IN  [d EXCEPT ![this_offset + 1] = Xor8(d[this_offset + 1], d[next_offset + 1])]

RECURSIVE ScramblePagesNoStride(_, _, _, _, _)
ScramblePagesNoStride(d, psize, offset, p, num_pages) ==
    IF p >= num_pages THEN d
    ELSE ScramblePagesNoStride(ScramblePage(d, psize, offset, p),
                               psize, offset, p + 1, num_pages)

RECURSIVE ScramblePages(_, _, _, _, _)
ScramblePages(d, psize, offset, p, num_pages) ==
    IF p >= num_pages THEN d
    ELSE ScramblePages(ScramblePage(d, psize, offset, p * psize),
                       psize, offset, p + 1, num_pages)

xor_scramble_shifted(d, psize, offset) ==
    LET bsize == Len(d)
    IN  IF psize # 0
        THEN ScramblePages(d, psize, offset, 0, bsize \div psize)
        ELSE ScramblePage(d, bsize, offset + 1, 0)

xor_scramble(d, psize, offset) ==
    LET bsize == Len(d)
    IN  IF psize # 0
        THEN ScramblePages(d, psize, offset, 0, bsize \div psize)
        ELSE ScramblePage(d, bsize, offset, 0)

zero(n) == [i \in 1..n |-> 0]
RandomBuffers(n, bytes) == [1..n -> bytes]
random_bytes(n) == RandomBuffers(n, ByteSamples)

\* ------------------------------------------------------ generator --------
\* lcg::LCG: x' = (a * x + c) mod m, next() returns the new x.
LCGNew(s, m, a, c) == [x |-> s, a |-> a, c |-> c, m |-> m]
LCGNext(g) == [g EXCEPT !.x = (g.a * g.x + g.c) % g.m]

\* let mut random = generator.next().unwrap();
\* while random >= bound { random = generator.next().unwrap(); }
\* The result is the generator after the draw; its x is the accepted value.
RECURSIVE RejectLoopInclusive(_, _, _)
RejectLoopInclusive(g, bound, fuel) ==
    IF g.x > bound /\ fuel > 0
    THEN RejectLoopInclusive(LCGNext(g), bound, fuel - 1)
    ELSE g

RECURSIVE RejectLoop(_, _, _)
RejectLoop(g, bound, fuel) ==
    IF g.x >= bound /\ fuel > 0
    THEN RejectLoop(LCGNext(g), bound, fuel - 1)
    ELSE g
DrawValid(g, bound) == RejectLoop(LCGNext(g), bound, g.m)

\* ------------------------------------------------------ state ------------
VARIABLES
    args,          \* ThermiteOptions
    fds,           \* length in bytes of each opened target
    pc,            \* position of the main thread
    start_block, end_block, iterations, data, generator,
    chosen_offset,
    fdi,           \* index of the target the for loop of line 305 is at
    wrapped,       \* line 288 has wrapped (a build without overflow checks)
    log,           \* writes completed so far: [fd, offset, buf]
    draws,         \* values accepted from the generator so far
    last_io_age,   \* now - *last_io
    wd_started,    \* the watchdog thread has been spawned
    wd_sleep,      \* time left of the watchdog's sleep
    mutex,         \* the Mutex around last_io is locked
    wd_pc,         \* "sleep", or "read" while the watchdog holds the lock
    exitcause,     \* "none" while the process runs
    exit_status

vars == <<args, fds, pc, start_block, end_block, iterations, data, generator,
          chosen_offset, fdi, wrapped, log, draws, last_io_age, wd_started,
          wd_sleep, mutex, wd_pc, exitcause, exit_status>>

cfgvars  == <<args, fds>>
runvars  == <<start_block, end_block, iterations, data>>
seqvars  == <<chosen_offset, fdi, wrapped, generator, draws>>
wdvars   == <<last_io_age, wd_started, wd_sleep, mutex, wd_pc>>
exitvars == <<exitcause, exit_status>>

\* ------------------------------------------------------ parse_opts -------
\* The checks of parse_opts after the options are read (numeric_opt! turns
\* an absent option into its default; an explicit 0 is rejected there).
ParseOptsAccepts(o) ==
    /\ ~((o.pagesize # 0) /\ (o.pagesize > o.blocksize))
    /\ ~((o.pagesize # 0) /\ ~IsPowerOfTwo(o.pagesize))
    /\ IsPowerOfTwo(o.blocksize)
    /\ ~((o.endblock # 0) /\ (o.endblock < o.startblock))

ThermiteOptions ==
    [blocksize : BlockSizes,
     pagesize  : {0} \cup BlockSizes,
     mode      : IOModes,
     startblock: 0..MaxStart,
     endblock  : 0..MaxEnd,
     data      : DataTypes,
     interval  : 0..MaxSkip]

Targets == UNION {[1..n -> FileLens] : n \in 1..MaxTargets}

\* The state when main calls run_io, but for args and fds.
Fresh ==
    /\ pc = "check"
    /\ start_block = 0
    /\ end_block = 0
    /\ iterations = 0
    /\ data = <<>>
    /\ generator = [x |-> 0, a |-> 1, c |-> 1, m |-> 1]
    /\ chosen_offset = 0
    /\ fdi = 1
    /\ wrapped = FALSE
    /\ log = <<>>
    /\ draws = <<>>
    /\ last_io_age = 0
    /\ wd_started = FALSE
    /\ wd_sleep = 0
    /\ mutex = FALSE
    /\ wd_pc = "sleep"
    /\ exitcause = "none"
    /\ exit_status = -1

Init ==
    /\ args \in {o \in ThermiteOptions : ParseOptsAccepts(o)}
    /\ fds \in Targets
    /\ Fresh

Running == exitcause = "none"

\* process::exit / return from main / panic: the process is gone.
Exit(cause, status) ==
    /\ exitcause' = cause
    /\ exit_status' = status
    /\ pc' = "exited"

\* ------------------------------------------------------ run_io -----------
\* Lines 225-230: all targets must have the length of the first.
SameLengthSelf(f) == \A i \in 1..Len(f) : f[i] = f[i]

SameLength(f) == \A i \in 1..Len(f) : f[i] = f[1]

CheckLengths ==
    /\ Running /\ pc = "check"
    /\ IF SameLength(fds)
       THEN pc' = "setup" /\ UNCHANGED exitvars
       ELSE Exit("config", 1)
    /\ UNCHANGED <<cfgvars, runvars, seqvars, log, wdvars>>

\* Lines 233-241.
ResolveEnd(o, f) == IF o.endblock # 0 THEN o.endblock ELSE f[1] \div o.blocksize
ResolveStart(o)  == IF o.startblock # 0 THEN o.startblock ELSE 0

\* Lines 250-259.
InitialData(o) ==
    IF o.data = "Zero" THEN {zero(o.blocksize)} ELSE random_bytes(o.blocksize)

\* Line 261: gen_range(low, high) draws from [low, high) and panics when
\* that is empty (assert!(low < high)).
SeedRangeNoAssert(s, e) == IF s < e THEN s..(e - 1) ELSE {s}

SeedRange(s, e) == s..(e - 1)
\* Line 262.
Power2(s, e) == next_power_of_two(e - s)

\* Lines 266-270: last_io = now, and the watchdog thread is spawned with
\* poll interval 2 and timeout 3; it sleeps first.
SpawnWatchdogNever ==
    /\ last_io_age' = 0
    /\ wd_started' = FALSE
    /\ wd_sleep' = PollInterval

SpawnWatchdog ==
    /\ last_io_age' = 0
    /\ wd_started' = TRUE
    /\ wd_sleep' = PollInterval

\* Lines 233-270: resolve the range, build the buffer, seed the generator
\* and spawn the watchdog.  gen_range(low, high) panics unless low < high.
Setup ==
    /\ Running /\ pc = "setup"
    /\ LET e == ResolveEnd(args, fds)
           s == ResolveStart(args)
       IN  /\ end_block' = e
           /\ start_block' = s
           /\ iterations' = 0
           /\ data' \in InitialData(args)
           /\ IF SeedRange(s, e) # {}
              THEN /\ \E seed \in SeedRange(s, e), ac \in LcgParams :
                        generator' = LCGNew(seed, Power2(s, e), ac[1], ac[2])
                   /\ SpawnWatchdog
                   /\ pc' = "choose"
                   /\ UNCHANGED <<mutex, wd_pc, exitvars>>
              ELSE /\ Exit("panic", 101)
                   /\ UNCHANGED <<generator, wdvars>>
    /\ UNCHANGED <<cfgvars, chosen_offset, fdi, wrapped, log, draws>>

\* Loop exit by break: run_io returns Ok(()), main returns.
Break ==
    /\ Exit("exhausted", 0)
    /\ UNCHANGED <<chosen_offset, fdi>>

ToWrite(off) ==
    /\ chosen_offset' = off
    /\ fdi' = 1
    /\ pc' = "write"
    /\ UNCHANGED exitvars

\* Lines 281-286.
SeqOffset(bs, it, s) == (bs * it) + (s * bs)
SeqBreak(off, e, bs) == off > e * bs

ChooseSequential ==
    /\ args.mode = "Sequential"
    /\ LET off == SeqOffset(args.blocksize, iterations, start_block)
       IN  IF SeqBreak(off, end_block, args.blocksize)
           THEN Break
           ELSE ToWrite(off)
    /\ UNCHANGED <<wrapped, generator, draws>>

\* Lines 287-292.  The subtraction underflows when iterations > end_block-1:
\* a build with overflow checks panics there, one without wraps.
RevOffset(bs, it, e) == (bs * (e - 1)) - (bs * it)
RevBreak(off, s, bs) == U64Le(off, s * bs)

ChooseSequentialReverse ==
    /\ args.mode = "SequentialReverse"
    /\ LET off == RevOffset(args.blocksize, iterations, end_block)
       IN  \/ /\ off < 0 /\ ~wrapped
              /\ Exit("panic", 101)
              /\ UNCHANGED <<chosen_offset, fdi, wrapped>>
           \/ /\ off < 0
              /\ wrapped' = TRUE
              /\ IF RevBreak(off, start_block, args.blocksize)
                 THEN Break
                 ELSE ToWrite(off)
           \/ /\ off >= 0
              /\ IF RevBreak(off, start_block, args.blocksize)
                 THEN Break
                 ELSE ToWrite(off)
              /\ UNCHANGED wrapped
    /\ UNCHANGED <<generator, draws>>

\* Lines 277-280.
ChooseRandom ==
    /\ args.mode = "Random"
    /\ iterations <= MaxRandomIter
    /\ \E random \in start_block..(end_block - 1) :
          ToWrite(args.blocksize * random)
    /\ UNCHANGED <<wrapped, generator, draws>>

\* Lines 293-302.
R100Break(it, s, e) == it = e
R100Bound(s, e) == e
R100Offset(random, bs, s) == (random * bs) + (s * bs)

ChooseRandom100 ==
    /\ args.mode = "Random100"
    /\ IF R100Break(iterations, start_block, end_block)
       THEN Break /\ UNCHANGED <<generator, draws>>
       ELSE LET g == DrawValid(generator, R100Bound(start_block, end_block))
            IN  /\ generator' = g
                /\ draws' = Append(draws, g.x)
                /\ ToWrite(R100Offset(g.x, args.blocksize, start_block))
    /\ UNCHANGED wrapped

Choose ==
    /\ Running /\ pc = "choose"
    /\ iterations <= MaxIter
    /\ \/ ChooseSequential
       \/ ChooseSequentialReverse
       \/ ChooseRandom
       \/ ChooseRandom100
    /\ UNCHANGED <<cfgvars, runvars, log, wdvars>>

\* Lines 306-307: what one successful seek and write leaves on target t.
WriteRecordStriped(t, off, buf) == [fd |-> t, offset |-> off + (t - 1), buf |-> buf]

WriteRecord(t, off, buf) == [fd |-> t, offset |-> off, buf |-> buf]

\* Lines 306-307 for one target: seek and write have returned Ok.
WriteOk ==
    /\ Running /\ pc = "write"
    /\ log' = Append(log, WriteRecord(fdi, chosen_offset, data))
    /\ pc' = "lock"
    /\ UNCHANGED <<cfgvars, runvars, seqvars, wdvars, exitvars>>

\* Line 308: last_io.lock() returns once the mutex is free.
LockLastIoUnguarded ==
    /\ Running /\ pc = "lock"
    /\ mutex' = TRUE
    /\ pc' = "store"
    /\ UNCHANGED <<cfgvars, runvars, seqvars, log, last_io_age, wd_started,
                   wd_sleep, wd_pc, exitvars>>

LockLastIo ==
    /\ Running /\ pc = "lock"
    /\ ~mutex
    /\ mutex' = TRUE
    /\ pc' = "store"
    /\ UNCHANGED <<cfgvars, runvars, seqvars, log, last_io_age, wd_started,
                   wd_sleep, wd_pc, exitvars>>

\* Line 309: *last_io_guard = Instant::now().
TouchLastIo == last_io_age' = 0

\* Lines 309-310: the timestamp is stored, the guard goes out of scope at
\* the end of the loop body and the for loop moves to the next target.
StoreLastIoKeepGuard ==
    /\ Running /\ pc = "store"
    /\ TouchLastIo
    /\ mutex' = mutex
    /\ IF fdi < Len(fds)
       THEN fdi' = fdi + 1 /\ pc' = "write"
       ELSE fdi' = fdi /\ pc' = "scramble"
    /\ UNCHANGED <<cfgvars, runvars, chosen_offset, wrapped, generator, draws,
                   log, wd_started, wd_sleep, wd_pc, exitvars>>

StoreLastIo ==
    /\ Running /\ pc = "store"
    /\ TouchLastIo
    /\ mutex' = FALSE
    /\ IF fdi < Len(fds)
       THEN fdi' = fdi + 1 /\ pc' = "write"
       ELSE fdi' = fdi /\ pc' = "scramble"
    /\ UNCHANGED <<cfgvars, runvars, chosen_offset, wrapped, generator, draws,
                   log, wd_started, wd_sleep, wd_pc, exitvars>>

\* Line 369: main binds the Result of run_io to _ and returns.
MainExitStatus(result) == 0

\* try! on a failed seek or write returns the Err from run_io.
WriteFail ==
    /\ Running /\ pc = "write"
    /\ Exit("ioerror", MainExitStatus("Err"))
    /\ UNCHANGED <<cfgvars, runvars, seqvars, log, wdvars>>

\* The seek or write never returns.
WriteHang ==
    /\ Running /\ pc = "write"
    /\ pc' = "hung"
    /\ UNCHANGED <<cfgvars, runvars, seqvars, log, wdvars, exitvars>>

\* Lines 312-313.
ScrambleAfterAdvance ==
    /\ Running /\ pc = "scramble"
    /\ iterations' = iterations + 1 + args.interval
    /\ data' = xor_scramble(data, args.pagesize, iterations')
    /\ pc' = "choose"
    /\ UNCHANGED <<cfgvars, start_block, end_block, seqvars, log, wdvars, exitvars>>

Scramble ==
    /\ Running /\ pc = "scramble"
    /\ data' = xor_scramble(data, args.pagesize, iterations)
    /\ iterations' = iterations + 1 + args.interval
    /\ pc' = "choose"
    /\ UNCHANGED <<cfgvars, start_block, end_block, seqvars, log, wdvars, exitvars>>

\* ------------------------------------------------------ watchdog ---------
\* One time unit passes; the watchdog wakes exactly when its sleep is over.
Tick ==
    /\ Running /\ wd_started
    /\ wd_sleep > 0
    /\ wd_sleep' = wd_sleep - 1
    /\ last_io_age' = last_io_age + 1
    /\ UNCHANGED <<cfgvars, pc, runvars, seqvars, log, wd_started, mutex, wd_pc,
                   exitvars>>

WatchExpired(age, timeout) == age > timeout

\* watchdog::watch, awake: lock the mutex around last_io.
WatchLock ==
    /\ Running /\ wd_started
    /\ wd_sleep = 0 /\ wd_pc = "sleep"
    /\ ~mutex
    /\ mutex' = TRUE
    /\ wd_pc' = "read"
    /\ UNCHANGED <<cfgvars, pc, runvars, seqvars, log, last_io_age, wd_started,
                   wd_sleep, exitvars>>

\* watchdog::watch, one poll: read last_io under the lock, terminate the
\* process when it is older than the timeout, else unlock and sleep again.
WatchPoll ==
    /\ Running /\ wd_started
    /\ wd_pc = "read"
    /\ IF WatchExpired(last_io_age, Timeout)
       THEN /\ exitcause' = "watchdog"
            /\ exit_status' = 1
            /\ UNCHANGED <<wd_sleep, mutex, wd_pc>>
       ELSE /\ wd_sleep' = PollInterval
            /\ mutex' = FALSE
            /\ wd_pc' = "sleep"
            /\ UNCHANGED exitvars
    /\ UNCHANGED <<cfgvars, pc, runvars, seqvars, log, last_io_age, wd_started>>

Next ==
    \/ CheckLengths
    \/ Setup
    \/ Choose
    \/ WriteOk
    \/ LockLastIo
    \/ StoreLastIo
    \/ WriteFail
    \/ WriteHang
    \/ Scramble
    \/ Tick
    \/ WatchLock
    \/ WatchPoll

Spec == Init /\ [][Next]_vars

\* The same program with the time and the watchdog thread scheduled fairly,
\* on the configurations with one-byte blocks of zeroes.
LiveInit ==
    /\ Init
    /\ args.blocksize = 1
    /\ args.pagesize = 0
    /\ args.data = "Zero"

FairSpec ==
    LiveInit /\ [][Next]_vars
    /\ WF_vars(Tick) /\ WF_vars(WatchLock) /\ WF_vars(WatchPoll)

\* ------------------------------------------------------ generator alone --
FullPeriodMultipliers == {a \in 1..MaxMul : a % 4 = 1}
FullPeriodIncrements  == {c \in 1..MaxInc : c % 2 = 1}

LcgArgs == [blocksize |-> 1, pagesize |-> 0, mode |-> "Random100",
            startblock |-> 0, endblock |-> 0, data |-> "Zero", interval |-> 0]

\* A generator over a range of end_block indices from block 0, any seed
\* in [0, M) and any parameters meeting the full-period conditions.
LcgInit ==
    /\ args = LcgArgs
    /\ fds = <<1>>
    /\ pc = "draw"
    /\ start_block = 0
    /\ end_block \in 1..MaxRange
    /\ generator \in {LCGNew(s, Power2(0, end_block), a, c) :
                        s \in 0..(Power2(0, end_block) - 1),
                        a \in FullPeriodMultipliers,
                        c \in FullPeriodIncrements}
    /\ iterations = 0
    /\ data = <<>>
    /\ chosen_offset = 0
    /\ fdi = 1
    /\ wrapped = FALSE
    /\ log = <<>>
    /\ draws = <<>>
    /\ last_io_age = 0
    /\ wd_started = FALSE
    /\ wd_sleep = 0
    /\ mutex = FALSE
    /\ wd_pc = "sleep"
    /\ exitcause = "none"
    /\ exit_status = -1

\* One draw as in lines 297-300.
LcgDraw ==
    /\ pc = "draw"
    /\ Len(draws) < end_block
    /\ LET g == DrawValid(generator, R100Bound(start_block, end_block))
       IN  /\ generator' = g
           /\ draws' = Append(draws, g.x)
    /\ UNCHANGED <<cfgvars, pc, runvars, chosen_offset, fdi, wrapped, log,
                   wdvars, exitvars>>

SpecLCG == LcgInit /\ [][LcgDraw]_vars

\* ------------------------------------------------------ xor_scramble alone
ScrBlockSizes == {Pow2(k) : k \in 0..MaxScrLogBlock}

ScrOptions ==
    [blocksize : ScrBlockSizes,
     pagesize  : {0} \cup ScrBlockSizes,
     mode      : {"Sequential"},
     startblock: {0},
     endblock  : {0},
     data      : DataTypes,
     interval  : {0}]

ScrInit ==
    /\ args \in {o \in ScrOptions : ParseOptsAccepts(o)}
    /\ fds = <<1>>
    /\ pc = "scr"
    /\ start_block = 0
    /\ end_block = 0
    /\ iterations \in 0..MaxScrIter
    /\ data \in (IF args.data = "Zero"
                 THEN {zero(args.blocksize)}
                 ELSE RandomBuffers(args.blocksize, ScrBytes))
    /\ generator = [x |-> 0, a |-> 1, c |-> 1, m |-> 1]
    /\ chosen_offset = 0
    /\ fdi = 1
    /\ wrapped = FALSE
    /\ log = <<>>
    /\ draws = <<>>
    /\ last_io_age = 0
    /\ wd_started = FALSE
    /\ wd_sleep = 0
    /\ mutex = FALSE
    /\ wd_pc = "sleep"
    /\ exitcause = "none"
    /\ exit_status = -1

\* One call xor_scramble(&mut data, args.pagesize, iterations); log keeps
\* the arguments of the call, and the next call may come with any counter.
ScrApply ==
    /\ pc = "scr"
    /\ data' = xor_scramble(data, args.pagesize, iterations)
    /\ log' = <<[fd |-> 0, offset |-> iterations, buf |-> data]>>
    /\ iterations' \in 0..MaxScrIter
    /\ UNCHANGED <<cfgvars, pc, start_block, end_block, seqvars, wdvars, exitvars>>

SpecScramble == ScrInit /\ [][ScrApply]_vars

\* ====================================================== properties =======
\* Offsets written to target t, in the order of the writes.
RECURSIVE OffsetsIn(_, _)
OffsetsIn(l, t) ==
    IF l = <<>> THEN <<>>
    ELSE IF l[1].fd = t
         THEN <<l[1].offset>> \o OffsetsIn(Tail(l), t)
         ELSE OffsetsIn(Tail(l), t)
OffsetsOf(t) == OffsetsIn(log, t)
Range(q) == {q[i] : i \in 1..Len(q)}
RangeLen == end_block - start_block
NaturalModes == {"Sequential", "SequentialReverse", "Random100"}
UnequalLengths == \E i, j \in 1..Len(fds) : fds[i] # fds[j]

\* C1: a Sequential run with skip interval 0 that ends by exhaustion has
\* written exactly the offsets b * blocksize for b = start_block ..
\* end_block - 1, ascending, each once, and nothing else.
C1_SequentialWritesRange ==
    (args.mode = "Sequential" /\ args.interval = 0 /\ exitcause = "exhausted")
    => OffsetsOf(1) = [i \in 1..RangeLen |-> (start_block + i - 1) * args.blocksize]

\* C2: a SequentialReverse run with skip interval 0 that ends by exhaustion
\* has written exactly the offsets b * blocksize for b = end_block - 1 down
\* to start_block, descending, each once, the block at start_block included.
C2_ReverseWritesRange ==
    (args.mode = "SequentialReverse" /\ args.interval = 0 /\ exitcause = "exhausted")
    => OffsetsOf(1) = [i \in 1..RangeLen |-> (end_block - i) * args.blocksize]

\* C3: a Random100 run with skip interval 0 that ends by exhaustion has made
\* exactly end_block - start_block write iterations, at the offsets
\* (start_block + i) * blocksize for every i in [0, end_block - start_block),
\* each once.
C3_Random100CoversRange ==
    (args.mode = "Random100" /\ args.interval = 0 /\ exitcause = "exhausted")
    => /\ Len(OffsetsOf(1)) = RangeLen
       /\ Range(OffsetsOf(1)) =
              {(start_block + i) * args.blocksize : i \in 0..(RangeLen - 1)}

\* C4: with modulus M the smallest power of two >= L, any seed in [0, M),
\* c odd and a mod 4 = 1, the accepted draws never repeat and stay below L,
\* so that the first L of them are every integer of [0, L) exactly once.
C4_FullPeriodPermutation ==
    /\ \A i \in 1..Len(draws) : draws[i] \in 0..(end_block - 1)
    /\ \A i, j \in 1..Len(draws) : i # j => draws[i] # draws[j]
    /\ Len(draws) = end_block => Range(draws) = 0..(end_block - 1)

C4_Witness ==
    /\ pc = "draw" /\ end_block = 5 /\ Len(draws) = 5
    /\ generator.a = 5 /\ generator.c = 3 /\ generator.m = 8

\* C5: once a write blocks forever the timestamp goes stale and the
\* watchdog terminates the process; it does so only at a poll that finds
\* the timestamp older than the timeout of 3.
C5_StaleRunIsTerminated ==
    /\ (pc = "hung") ~> (exitcause = "watchdog")
    /\ [](exitcause = "watchdog" => last_io_age > Timeout)

C5_Witness == pc = "hung" /\ exitcause = "watchdog" /\ last_io_age > 3

\* C6: in a run in which the timestamp is never older than 1 time unit
\* (the orchestrator updates it at least once every time unit), the
\* watchdog never terminates the process.
C6_FreshRunNotTerminated ==
    [](last_io_age <= 1) => [](exitcause # "watchdog")

\* The watchdog has polled a timestamp 1 unit old, after a write, and has
\* gone back to sleep.
C6_Witness ==
    /\ Running /\ wd_started /\ log # <<>>
    /\ wd_sleep = PollInterval /\ last_io_age = 1

\* C7: xor_scramble leaves an all-zero buffer all-zero, for every block
\* size, every page size that parse_opts accepts with it and every
\* iteration counter.
C7_ZeroBufferFixed ==
    (pc = "scr" /\ args.data = "Zero") => data = zero(args.blocksize)

C7_Witness ==
    /\ pc = "scr" /\ args.data = "Zero" /\ log # <<>>
    /\ args.blocksize = 4 /\ args.pagesize = 2 /\ log[1].offset = 3
    /\ data = zero(4)

\* C8: in Sequential, SequentialReverse and Random100 mode, on equally long
\* targets and start_block < end_block, a run that the main thread ends
\* without an I/O failure has ended by exhaustion of the sequencer.
C8_EndsByExhaustion ==
    (/\ args.mode \in NaturalModes /\ ~UnequalLengths
     /\ pc = "exited" /\ start_block < end_block
     /\ exitcause # "ioerror")
    => exitcause = "exhausted"

\* C9: a run aborted by a failed seek or write ends with a non-zero exit
\* status.
C9_IoFailureExitsNonZero ==
    exitcause = "ioerror" => exit_status # 0

\* C10: with targets of different lengths the run gets no further than the
\* length check: nothing is written, the watchdog is never started, and the
\* process ends only by the configuration error, with a non-zero status.
C10_UnequalLengthsRejected ==
    UnequalLengths
    => /\ log = <<>>
       /\ ~wd_started
       /\ pc \in {"check", "exited"}
       /\ exitcause \in {"none", "config"}
       /\ exitcause = "config" => exit_status # 0

C10_Witness ==
    /\ UnequalLengths /\ pc = "exited"
    /\ exitcause = "config" /\ exit_status = 1

\* ------------------------------------------------------ C11 .. C20 -------
LoopPcs == {"choose", "write", "lock", "store", "scramble", "hung"}
Last(q) == q[Len(q)]

\* C11: whenever the main thread is in the loop, the resolved end_block is
\* >= the resolved start_block; a resolution with end_block < start_block
\* ends in the panic of gen_range (line 261), before the watchdog is
\* spawned and before anything is written.
C11_EndNotBelowStart ==
    /\ pc \in LoopPcs => end_block >= start_block
    /\ end_block < start_block
       => (pc = "exited" /\ exitcause = "panic" /\ log = <<>> /\ ~wd_started)

\* The loop has started on a range whose end was derived from the length.
C11_Witness ==
    /\ pc = "choose" /\ args.endblock = 0 /\ args.startblock = 1
    /\ start_block = 1 /\ end_block = 2 /\ iterations = 0

\* One step of the run, for C12.
C12_Step ==
    /\ (pc = "setup" /\ pc' = "choose") => iterations' = 0
    /\ chosen_offset' # chosen_offset => (pc = "choose" /\ pc' = "write")
    /\ log' # log
       => /\ pc = "write"
          /\ log' = Append(log, [fd |-> fdi, offset |-> chosen_offset, buf |-> data])
          /\ data' = data /\ iterations' = iterations
    /\ (pc # "setup" /\ (data' # data \/ iterations' # iterations))
       => /\ pc = "scramble" /\ pc' = "choose"
          /\ Len(log) >= Len(fds)
          /\ \A t \in 1..Len(fds) :
                log[Len(log) - Len(fds) + t] =
                    [fd |-> t, offset |-> chosen_offset, buf |-> data]
          /\ data' = xor_scramble(data, args.pagesize, iterations)
          /\ iterations' = iterations + 1 + args.interval
    /\ exitcause # "none" => UNCHANGED <<log, data, iterations>>

\* C12: every iteration chooses the offset, then writes the same buffer to
\* every target at that offset, then calls xor_scramble once with the
\* counter not yet advanced, then advances the counter by 1 + interval; the
\* counter starts at 0, and once the process has ended nothing is written
\* or mutated.
C12_IterationOrder == [][C12_Step]_vars

C12_Witness ==
    /\ pc = "choose" /\ args.interval = 1 /\ iterations = 2
    /\ Len(fds) = 2 /\ Len(log) = 2 /\ data # log[1].buf

\* One step of the run, for C13.
C13_Step ==
    last_io_age' # last_io_age
    => \/ /\ last_io_age' = last_io_age + 1
          /\ wd_sleep' = wd_sleep - 1
          /\ UNCHANGED <<pc, log, mutex, wd_pc>>
       \/ /\ pc = "store" /\ wd_pc = "sleep" /\ wd_pc' = "sleep"
          /\ last_io_age' = 0

C13_State ==
    /\ pc = "store"
       => /\ mutex /\ wd_pc # "read"
          /\ log # <<>>
          /\ Last(log) = [fd |-> fdi, offset |-> chosen_offset, buf |-> data]
    /\ wd_pc = "read" => (mutex /\ pc # "store")

\* C13: the timestamp is stored only by the main thread, right after the
\* successful write on the target at hand; the watchdog only reads it; the
\* main thread's store and the watchdog's read both happen with the mutex
\* locked and never at the same time.
C13_TimestampDiscipline == [](C13_State) /\ [][C13_Step]_vars

\* The main thread is about to store a newer timestamp while the watchdog,
\* awake, waits for the lock.
C13_Witness ==
    /\ Running /\ pc = "store" /\ mutex
    /\ wd_sleep = 0 /\ wd_pc = "sleep" /\ last_io_age > 0

\* C14: the main thread holds the mutex only between lock() and the store:
\* never while it seeks or writes, hangs in a write or waits for the lock;
\* so the watchdog, once awake, finds the mutex free during a hung write,
\* and a main thread waiting for the lock waits for the watchdog only.
C14_LockOnlyAroundStore ==
    /\ (mutex /\ wd_pc # "read") => pc = "store"
    /\ (Running /\ pc = "hung" /\ wd_sleep = 0 /\ wd_pc = "sleep") => ~mutex
    /\ (pc = "lock" /\ mutex) => wd_pc = "read"

\* The watchdog holds the lock while a write hangs.
C14_Witness == Running /\ pc = "hung" /\ mutex /\ wd_pc = "read"

\* C15: with a page size that is a power of two dividing the buffer
\* length, one call changes in each page p at most the byte at
\* p*pagesize + (iteration mod pagesize), to its old value XOR the old byte
\* at p*pagesize + ((iteration+1) mod pagesize); all other bytes and the
\* length stay, and both indices are inside the buffer.
C15_PageFrame ==
    (pc = "scr" /\ log # <<>> /\ args.pagesize # 0)
    => LET old == log[1].buf
           it  == log[1].offset
           ps  == args.pagesize
       IN  /\ Len(data) = Len(old)
           /\ \A i \in 0..(Len(old) - 1) :
                 LET p    == i \div ps
                     this == p * ps + (it % ps)
                     next == p * ps + ((it + 1) % ps)
                 IN  /\ this < Len(old) /\ next < Len(old)
                     /\ data[i + 1] = IF i = this
                                      THEN Xor8(old[this + 1], old[next + 1])
                                      ELSE old[i + 1]

C15_Witness ==
    /\ pc = "scr" /\ log # <<>>
    /\ args.blocksize = 4 /\ args.pagesize = 2 /\ log[1].offset = 3
    /\ data[2] # log[1].buf[2] /\ data[4] # log[1].buf[4]

\* C16: on a buffer whose length is a power of two, xor_scramble with page
\* size 0 gives the buffer that page size = buffer length gives.
C16_ZeroPageIsWholeBlock ==
    (pc = "scr" /\ log # <<>>)
    => LET old == log[1].buf
           it  == log[1].offset
       IN  /\ args.pagesize = 0 => data = xor_scramble(old, Len(old), it)
           /\ args.pagesize = Len(old) => data = xor_scramble(old, 0, it)

C16_Witness ==
    /\ pc = "scr" /\ log # <<>>
    /\ args.blocksize = 4 /\ args.pagesize = 0 /\ log[1].offset = 5
    /\ data # log[1].buf

\* C17: the seed the generator is built with lies in [0, M), M being the
\* modulus it is built with.
C17_SeedBelowModulus ==
    (wd_started /\ draws = <<>>) => generator.x \in 0..(generator.m - 1)

\* C18: every offset written is a multiple of blocksize and lies in
\* [start_block*blocksize, end_block*blocksize).
C18_WritesInRange ==
    pc \in LoopPcs \cup {"exited"}
    => \A i \in 1..Len(log) :
          /\ log[i].offset % args.blocksize = 0
          /\ log[i].offset >= start_block * args.blocksize
          /\ log[i].offset < end_block * args.blocksize

\* C19: no u64 subtraction of run_io underflows: end_block - start_block and
\* end_block - 1 are >= 0 in the loop, and at the loop head of
\* SequentialReverse blocksize*(end_block-1) - blocksize*iterations is >= 0.
C19_NoUnderflow ==
    /\ pc \in LoopPcs => (end_block - start_block >= 0 /\ end_block - 1 >= 0)
    /\ (Running /\ pc = "choose" /\ args.mode = "SequentialReverse"
          /\ iterations <= MaxIter)
       => RevOffset(args.blocksize, iterations, end_block) >= 0
    /\ ~wrapped

\* Offset and contents of the writes target t has received, in order.
RECURSIVE WritesIn(_, _)
WritesIn(l, t) ==
    IF l = <<>> THEN <<>>
    ELSE IF l[1].fd = t
         THEN <<(<<l[1].offset, l[1].buf>>)>> \o WritesIn(Tail(l), t)
         ELSE WritesIn(Tail(l), t)
WritesOf(t) == WritesIn(log, t)

\* C20: after every completed iteration, and at normal termination, every
\* target has received the same sequence of (offset, contents) writes.
C20_TargetsMirrored ==
    (pc \in {"choose", "scramble"} \/ exitcause = "exhausted")
    => \A t \in 1..Len(fds) : WritesOf(t) = WritesOf(1)

C20_Witness ==
    /\ pc = "choose" /\ Len(fds) = 2 /\ Len(log) = 4
    /\ log[1].buf # log[3].buf /\ log[1].offset # log[3].offset
    /\ WritesOf(2) = WritesOf(1)

====
